---- MODULE Spec2Model ----
(***************************************************************************)
(* A model of tess.py: the callbacks ZoteTess.triangulate registers with   *)
(* the GLU tessellator (cb_begin, cb_vert, cb_end, cb_error, cb_combine),  *)
(* the loop that turns the raw index triples into Triangle objects, the    *)
(* boundary classifier (is_edge, is_adjacent, find_bound_tuple), the       *)
(* Triangle constructor and Shape.make_bound_tuples / flattened_points.    *)
(*                                                                         *)
(* Numbers.  Point coordinates are multiples of 0.01, held as integers in  *)
(* that unit; a cross product is then an integer multiple of 0.0001, and   *)
(* the constant 0.0001 of Triangle.__init__ is 1 (Threshold).  Python      *)
(* sequences are 0-based and TLA+ sequences 1-based: x[k] of the source is *)
(* x[k + 1] here.  None is the empty tuple where the source holds a tuple  *)
(* or None (find_bound_tuple) and NoStyle where it holds a GL enum or None *)
(* (tess_style).                                                           *)
(***************************************************************************)
EXTENDS Integers, Sequences, FiniteSets, TLC

VARIABLES
    shape,          \* Shape.paths of the shape in hand: a sequence of paths
    tess_style,     \* ZoteTess.tess_style
    current_shape,  \* ZoteTess.current_shape, the accumulator
    triangles,      \* triangulate's local list of raw index triples
    made,           \* the Triangle objects triangulate's last loop built
    ret,            \* the list triangulate returns
    tuples,         \* shape.make_bound_tuples()
    flat,           \* shape.flattened_points()
    pc,             \* where the program is
    prim,           \* the payloads the engine emitted since the last cb_begin
    nevents,        \* callbacks the engine made in this run
    combined,       \* the engine holds a vertex made by cb_combine
    fresh,          \* a newly constructed ZoteTess given the same call
    expected,       \* the positional expansion of this run's primitives
    seen,           \* what has happened in this run, for the claims
    interned,       \* equal ints beyond the small-int cache are one object
    edge,           \* the last is_edge call: its arguments and its result
    again           \* Triangle objects rebuilt from made's final points

vars == <<shape, tess_style, current_shape, triangles, made, ret, tuples, flat,
          pc, prim, nevents, combined, fresh, expected, seen, interned, edge,
          again>>

-----------------------------------------------------------------------------
(* Bounds of the model *)

\* callbacks the engine makes in one triangulate run
MaxEvents == 10
\* paths of a drawn shape (span and classifier checks)
MaxPaths == 3
\* points of one drawn path (span and classifier checks)
MaxPathLen == 4
\* points of a drawn shape (Triangle checks)
MaxPoints == 4
\* largest x coordinate of a drawn point, in units of 0.01
GridMax == 2

-----------------------------------------------------------------------------
(* Constants of the program *)

GL_LINE_LOOP == 2
GL_TRIANGLES == 4
GL_TRIANGLE_STRIP == 5
GL_TRIANGLE_FAN == 6
\* tess_style after ZoteTess.__init__
InitialStyle == 0
\* tess_style = None
NoStyle == -1
\* 0.0001, in units of 0.01 * 0.01
Threshold == 1
\* the payload (c[0], c[1], c[2]) cb_combine hands the engine: a coordinate
\* tuple, not an index
CombinedVertex == -1
\* `is` compares object identity.  CPython keeps one object for each int of
\* -5..256; any other int is a new object each time it is computed.
SmallIntMax == 256

None == <<>>

-----------------------------------------------------------------------------
(* Python built-ins *)

min(a, b) == IF a <= b THEN a ELSE b
max(a, b) == IF a >= b THEN a ELSE b
abs(x) == IF x < 0 THEN -x ELSE x

\* x is y, for two ints computed separately
IntIs(x, y) == x = y /\ (x \in -5..SmallIntMax \/ interned)

-----------------------------------------------------------------------------
(* Shape *)

RECURSIVE bound_loop(_, _, _)
bound_loop(paths, low, acc) ==
    IF paths = <<>> THEN acc
    ELSE LET high == low + Len(Head(paths)) - 1
         IN  bound_loop(Tail(paths), high + 1, Append(acc, <<low, high>>))

RECURSIVE bound_loop_overlap(_, _, _)
bound_loop_overlap(paths, low, acc) ==
    IF paths = <<>> THEN acc
    ELSE LET high == low + Len(Head(paths)) - 1
         IN  bound_loop_overlap(Tail(paths), high, Append(acc, <<low, high>>))

make_bound_tuples_overlap(paths) == bound_loop_overlap(paths, 0, <<>>)

make_bound_tuples(paths) == bound_loop(paths, 0, <<>>)

RECURSIVE flattened_points(_)
flattened_points(paths) ==
    IF paths = <<>> THEN <<>>
    ELSE Head(paths) \o flattened_points(Tail(paths))

-----------------------------------------------------------------------------
(* Boundary classifier *)

inside(num, spanish) == num >= spanish[1] /\ num <= spanish[2]

find_bound_tuple(a, b, bounds) ==
    LET hits == {i \in 1..Len(bounds) : inside(a, bounds[i]) /\ inside(b, bounds[i])}
    IN  IF hits = {} THEN None
        ELSE bounds[CHOOSE i \in hits : \A j \in hits : i <= j]

is_adjacent(a, b, span) ==
    LET lower == min(a, b)
        upper == max(a, b)
        diff == upper - lower
    IN  IF IntIs(diff, 1) THEN TRUE
        ELSE IF IntIs(lower, span[1]) /\ IntIs(upper, span[2]) THEN TRUE
        ELSE FALSE

is_edge(a, b, bounds) ==
    LET span == find_bound_tuple(a, b, bounds)
    IN  IF span # None THEN is_adjacent(a, b, span) ELSE FALSE

-----------------------------------------------------------------------------
(* Triangle *)

vec(start, end) == <<end[1] - start[1], end[2] - start[2]>>

cross(a, b) == (a[1] * b[2]) - (a[2] * b[1])

\* Triangle.__init__ without the swap of points 0 and 2
Triangle_no_swap(tri, bounds, flattened) ==
    LET edges == <<is_edge(tri[1], tri[2], bounds), is_edge(tri[2], tri[3], bounds),
                   is_edge(tri[3], tri[1], bounds)>>
        v1 == vec(flattened[tri[1] + 1], flattened[tri[2] + 1])
        v2 == vec(flattened[tri[1] + 1], flattened[tri[3] + 1])
        c == cross(v1, v2)
    IN  [points |-> <<tri[1], tri[2], tri[3]>>,
         edges |-> IF c <= -Threshold THEN <<edges[2], edges[1], edges[3]>> ELSE edges,
         degenerate |-> abs(c) < Threshold]

\* Triangle.__init__ without the swap of edges 0 and 1
Triangle_keep_edges(tri, bounds, flattened) ==
    LET edges == <<is_edge(tri[1], tri[2], bounds), is_edge(tri[2], tri[3], bounds),
                   is_edge(tri[3], tri[1], bounds)>>
        v1 == vec(flattened[tri[1] + 1], flattened[tri[2] + 1])
        v2 == vec(flattened[tri[1] + 1], flattened[tri[3] + 1])
        c == cross(v1, v2)
    IN  [points |-> IF c <= -Threshold THEN <<tri[3], tri[2], tri[1]>>
                    ELSE <<tri[1], tri[2], tri[3]>>,
         edges |-> edges,
         degenerate |-> abs(c) < Threshold]

\* Triangle.__init__ swapping edges 0 and 2 where it swaps edges 0 and 1
Triangle_swap_edges_02(tri, bounds, flattened) ==
    LET edges == <<is_edge(tri[1], tri[2], bounds), is_edge(tri[2], tri[3], bounds),
                   is_edge(tri[3], tri[1], bounds)>>
        v1 == vec(flattened[tri[1] + 1], flattened[tri[2] + 1])
        v2 == vec(flattened[tri[1] + 1], flattened[tri[3] + 1])
        c == cross(v1, v2)
    IN  [points |-> IF c <= -Threshold THEN <<tri[3], tri[2], tri[1]>>
                    ELSE <<tri[1], tri[2], tri[3]>>,
         edges |-> IF c <= -Threshold THEN <<edges[3], edges[2], edges[1]>> ELSE edges,
         degenerate |-> abs(c) < Threshold]

Triangle(tri, bounds, flattened) ==
    LET points == <<tri[1], tri[2], tri[3]>>
        edges == <<is_edge(tri[1], tri[2], bounds), is_edge(tri[2], tri[3], bounds),
                   is_edge(tri[3], tri[1], bounds)>>
        v1 == vec(flattened[tri[1] + 1], flattened[tri[2] + 1])
        v2 == vec(flattened[tri[1] + 1], flattened[tri[3] + 1])
        c == cross(v1, v2)
    IN  IF abs(c) < Threshold
        THEN [points |-> points, edges |-> edges, degenerate |-> TRUE]
        ELSE IF c < 0
        THEN [points |-> <<points[3], points[2], points[1]>>,
              edges |-> <<edges[2], edges[1], edges[3]>>,
              degenerate |-> FALSE]
        ELSE [points |-> points, edges |-> edges, degenerate |-> FALSE]

-----------------------------------------------------------------------------
(* ZoteTess: the callbacks of triangulate.  A ZoteTess in the middle of a   *)
(* call is a record of self.tess_style, self.current_shape, the local list  *)
(* triangles the callbacks close over, and whether the callback raised.     *)

ZoteTess ==
    [tess_style |-> InitialStyle, current_shape |-> <<>>, triangles |-> <<>>,
     raised |-> FALSE]

cb_vert(z, v) == [z EXCEPT !.current_shape = Append(@, v)]

cb_begin(z, style) == [z EXCEPT !.tess_style = style]

\* while self.current_shape: p2 = pop(0); triangles.append([c, p1, p2]); p1 = p2
RECURSIVE fan_loop(_, _, _, _)
fan_loop(c, p1, rest, tris) ==
    IF rest = <<>> THEN tris
    ELSE fan_loop(c, Head(rest), Tail(rest), Append(tris, <<c, p1, Head(rest)>>))

\* while self.current_shape: p3 = pop(0); triangles.append([p1, p2, p3]); ...
RECURSIVE strip_loop(_, _, _, _)
strip_loop(p1, p2, rest, tris) ==
    IF rest = <<>> THEN tris
    ELSE strip_loop(p2, Head(rest), Tail(rest), Append(tris, <<p1, p2, Head(rest)>>))

\* while self.current_shape: three pop(0), then triangles.append([p1, p2, p3]);
\* pop(0) of the empty list raises IndexError
RECURSIVE list_loop(_, _)
list_loop(rest, tris) ==
    IF rest = <<>> THEN [triangles |-> tris, raised |-> FALSE]
    ELSE IF Len(rest) < 3 THEN [triangles |-> tris, raised |-> TRUE]
    ELSE list_loop(SubSeq(rest, 4, Len(rest)),
                   Append(tris, <<rest[1], rest[2], rest[3]>>))

\* the GL_TRIANGLE_FAN branch with p1 never moved on
end_fan_fixed_p1(z) ==
    LET cs == z.current_shape
    IN  IF Len(cs) < 2
        THEN [z EXCEPT !.current_shape = <<>>, !.raised = TRUE]
        ELSE [z EXCEPT !.triangles =
                           @ \o [k \in 1..(Len(cs) - 2) |-> <<cs[1], cs[2], cs[k + 2]>>],
                       !.current_shape = <<>>, !.raised = FALSE]

\* The GL_TRIANGLE_FAN branch.  pop(0) of an empty list raises IndexError; the
\* list is then the empty list the failing pop(0) found.
end_fan(z) ==
    LET cs == z.current_shape
    IN  IF Len(cs) < 2
        THEN [z EXCEPT !.current_shape = <<>>, !.raised = TRUE]
        ELSE [z EXCEPT !.triangles = fan_loop(cs[1], cs[2], SubSeq(cs, 3, Len(cs)), @),
                       !.current_shape = <<>>, !.raised = FALSE]

\* the GL_TRIANGLE_STRIP branch
end_strip(z) ==
    LET cs == z.current_shape
    IN  IF Len(cs) < 2
        THEN [z EXCEPT !.current_shape = <<>>, !.raised = TRUE]
        ELSE [z EXCEPT !.triangles = strip_loop(cs[1], cs[2], SubSeq(cs, 3, Len(cs)), @),
                       !.current_shape = <<>>, !.raised = FALSE]

\* the GL_TRIANGLES branch
end_list(z) ==
    LET r == list_loop(z.current_shape, z.triangles)
    IN  [z EXCEPT !.triangles = r.triangles, !.current_shape = <<>>,
                  !.raised = r.raised]

\* the last two lines of cb_end, without the second
end_reset_style_only(z) == [z EXCEPT !.tess_style = NoStyle]

\* self.tess_style = None; self.current_shape = []
end_reset(z) == [z EXCEPT !.tess_style = NoStyle, !.current_shape = <<>>]

\* An IndexError leaves cb_end before its last two lines.
cb_end(z) ==
    LET r == IF z.tess_style = GL_TRIANGLE_FAN THEN end_fan(z)
             ELSE IF z.tess_style = GL_TRIANGLE_STRIP THEN end_strip(z)
             ELSE IF z.tess_style = GL_TRIANGLES THEN end_list(z)
             ELSE [z EXCEPT !.raised = FALSE]
    IN  IF r.raised THEN r ELSE end_reset(r)

\* triangulate's second line without the reset
stale_accumulator(cs) == cs

\* self.current_shape = [] at the start of triangulate
new_accumulator(cs) == <<>>

-----------------------------------------------------------------------------
(* The end of triangulate: the loop over the raw triples *)

\* a payload that is an index into flattened_points; the tuple cb_combine
\* returns is none, and flattened_points[tuple] raises TypeError
IsIndex(v) == v # CombinedVertex

Indexable(t) == IsIndex(t[1]) /\ IsIndex(t[2]) /\ IsIndex(t[3])

\* the raw triples before the first one the loop raises on
RECURSIVE Reached(_)
Reached(tris) ==
    IF tris = <<>> \/ ~Indexable(Head(tris)) THEN <<>>
    ELSE <<Head(tris)>> \o Reached(Tail(tris))

NotDegenerate(t) == ~t.degenerate

Return ==
    /\ pc \in {"polygon", "stopped"}
    /\ LET bounds == make_bound_tuples(shape)
           points == flattened_points(shape)
           reached == Reached(triangles)
           perhaps == [k \in 1..Len(reached) |-> Triangle(reached[k], bounds, points)]
       IN  /\ tuples' = bounds
           /\ flat' = points
           /\ made' = perhaps
           /\ IF Len(reached) = Len(triangles)
              THEN /\ ret' = SelectSeq(perhaps, NotDegenerate)
                   /\ pc' = "returned"
              ELSE /\ ret' = <<>>
                   /\ pc' = "raised"
    /\ UNCHANGED <<shape, tess_style, current_shape, triangles, prim, nevents,
                   combined, fresh, expected, seen, interned, edge, again>>

-----------------------------------------------------------------------------
(* Drawn shapes *)

Origin == <<0, 0, 0>>
PlainPath(n) == [i \in 1..n |-> Origin]
LongPath == SmallIntMax + 2

SmallLens == UNION {[1..k -> 0..MaxPathLen] : k \in 0..MaxPaths}
LongLens == {s \o <<LongPath>> : s \in {t \in SmallLens : Len(t) <= 1}}
PlainShape(lens) == [k \in 1..Len(lens) |-> PlainPath(lens[k])]
PlainShapes == {PlainShape(lens) : lens \in SmallLens \cup LongLens}

\* the indices at and next to the ends of each span
Probes(bounds) ==
    UNION {{bounds[k][1], bounds[k][1] + 1, bounds[k][2] - 1, bounds[k][2]}
              \cap (bounds[k][1]..bounds[k][2]) : k \in 1..Len(bounds)}

-----------------------------------------------------------------------------
(* The span and classifier specification: make_bound_tuples and            *)
(* flattened_points of a drawn shape, then one is_edge call.               *)

Idle ==
    /\ tess_style = InitialStyle /\ current_shape = <<>> /\ triangles = <<>>
    /\ made = <<>> /\ ret = <<>> /\ prim = <<>> /\ nevents = 0
    /\ combined = FALSE /\ fresh = <<>> /\ expected = <<>> /\ seen = {}
    /\ again = <<>>

InitShape ==
    /\ Idle
    /\ shape \in PlainShapes
    /\ interned \in BOOLEAN
    /\ tuples = <<>> /\ flat = <<>> /\ edge = <<>>
    /\ pc = "shape"

MakeBoundTuples ==
    /\ pc = "shape"
    /\ tuples' = make_bound_tuples(shape)
    /\ flat' = flattened_points(shape)
    /\ pc' = "bounds"
    /\ UNCHANGED <<shape, tess_style, current_shape, triangles, made, ret, prim,
                   nevents, combined, fresh, expected, seen, interned, edge, again>>

IsEdge ==
    /\ pc = "bounds"
    /\ \E a \in Probes(tuples), b \in Probes(tuples) :
           edge' = [a |-> a, b |-> b, result |-> is_edge(a, b, tuples)]
    /\ pc' = "edge"
    /\ UNCHANGED <<shape, tess_style, current_shape, triangles, made, ret, tuples,
                   flat, prim, nevents, combined, fresh, expected, seen, interned,
                   again>>

-----------------------------------------------------------------------------
(* Claims about make_bound_tuples and is_edge, checked under SpecShape *)

LensOf(paths) == [k \in 1..Len(paths) |-> Len(paths[k])]

\* C9: make_bound_tuples returns one span per path, in path order, with
\* low_0 = 0, high_k = low_k + len(path_k) - 1 and low_{k+1} = high_k + 1; the
\* spans are pairwise disjoint and cover exactly the indices 0..N-1 of
\* flattened_points; path lengths [4,3,3] give [(0,3),(4,6),(7,9)] and zero
\* paths give an empty span list and an empty buffer.
C9_SpansPartitionTheBuffer ==
    pc \in {"bounds", "edge"} =>
        /\ Len(tuples) = Len(shape)
        /\ \A k \in 1..Len(tuples) :
               /\ tuples[k][1] = (IF k = 1 THEN 0 ELSE tuples[k - 1][2] + 1)
               /\ tuples[k][2] = tuples[k][1] + Len(shape[k]) - 1
               /\ \A i \in tuples[k][1]..tuples[k][2] : i \in 0..(Len(flat) - 1)
        /\ \A i \in 0..(Len(flat) - 1) :
               Cardinality({k \in 1..Len(tuples) : inside(i, tuples[k])}) = 1
        /\ (LensOf(shape) = <<4, 3, 3>> => tuples = <<<<0, 3>>, <<4, 6>>, <<7, 9>>>>)
        /\ (shape = <<>> => tuples = <<>> /\ flat = <<>>)

C9_Witness ==
    /\ pc = "bounds"
    /\ LensOf(shape) = <<4, 3, 3>>
    /\ tuples = <<<<0, 3>>, <<4, 6>>, <<7, 9>>>>

\* what C3 says is_edge(a, b, spans) is
SameSpanAdjacent(a, b, bounds) ==
    \E k \in 1..Len(bounds) :
        /\ inside(a, bounds[k]) /\ inside(b, bounds[k])
        /\ (abs(a - b) = 1 \/ {a, b} = {bounds[k][1], bounds[k][2]})

\* C3: is_edge(a, b, spans) is true exactly when one single span contains both
\* a and b and, within it, |a - b| = 1 or {a, b} = {low, high}: the last vertex
\* of one path and the first of the next are never a boundary edge, the first
\* and last vertex of the same path always are.
C3_IsEdgeIsSameSpanAdjacency ==
    pc = "edge" => (edge.result <=> SameSpanAdjacent(edge.a, edge.b, tuples))

\* the same, for indices CPython keeps one object for
C3_HoldsWithinSmallInts ==
    (pc = "edge" /\ edge.a <= SmallIntMax /\ edge.b <= SmallIntMax)
        => (edge.result <=> SameSpanAdjacent(edge.a, edge.b, tuples))

NextShape == MakeBoundTuples \/ IsEdge

SpecShape == InitShape /\ [][NextShape]_vars

-----------------------------------------------------------------------------
(* The Triangle specification: one raw triple of a drawn shape goes        *)
(* through the loop at the end of triangulate, and each Triangle built is  *)
(* then built again from its own final points.                             *)

\* the shapes of tess_tests.py, in units of 0.01
Square ==
    << << <<1000, 1000, 0>>, <<2000, 1000, 0>>, <<2000, 2000, 0>>, <<1000, 2000, 0>> >> >>

Concave ==
    << << <<2000, 1500, 0>>, <<1000, 2500, 0>>, <<2000, 500, 0>>, <<3000, 2500, 0>> >> >>

SquareWithTriangleHoles ==
    << << <<1000, 1000, 0>>, <<1000, 5000, 0>>, <<6000, 5000, 0>>, <<6000, 1000, 0>> >>,
       << <<2000, 3000, 0>>, <<2500, 4000, 0>>, <<3000, 3000, 0>> >>,
       << <<4000, 3000, 0>>, <<4500, 2000, 0>>, <<5000, 3000, 0>> >> >>

TestShapes == {Square, Concave, SquareWithTriangleHoles}

Grid == {<<x, y, 0>> : x \in 0..GridMax, y \in 0..1}
Layouts == Grid \X Grid \X Grid

RECURSIVE Sum(_)
Sum(s) == IF s = <<>> THEN 0 ELSE Head(s) + Sum(Tail(s))

\* path lengths: every way to cut 1..MaxPoints points into paths
Cuts ==
    {s \in UNION {[1..k -> 1..MaxPoints] : k \in 1..MaxPoints} : Sum(s) <= MaxPoints}

\* the shape with path lengths lens whose points repeat the three of layout
GridShape(lens, layout) ==
    LET lows == make_bound_tuples(PlainShape(lens))
    IN  [k \in 1..Len(lens) |->
            [i \in 1..lens[k] |-> layout[((lows[k][1] + i - 1) % 3) + 1]]]

GridShapes == {GridShape(lens, layout) : lens \in Cuts, layout \in Layouts}

NumPoints(paths) == Len(flattened_points(paths))

InitTriangle ==
    /\ Idle
    /\ shape \in GridShapes \cup TestShapes
    /\ interned = FALSE
    /\ tuples = <<>> /\ flat = <<>> /\ edge = <<>>
    /\ pc = "polygon"

\* triangles.append([p1, p2, p3]): one raw triple reaches triangulate's list
RawTriple ==
    /\ pc = "polygon"
    /\ triangles = <<>>
    /\ LET index == Probes(make_bound_tuples(shape))
       IN  \E p1 \in index, p2 \in index, p3 \in index :
               triangles' = Append(triangles, <<p1, p2, p3>>)
    /\ UNCHANGED <<shape, tess_style, current_shape, made, ret, tuples, flat, pc,
                   prim, nevents, combined, fresh, expected, seen, interned, edge,
                   again>>

\* Triangle(t.points, tuples, flat) for each Triangle the loop built
Renormalise ==
    /\ pc = "returned"
    /\ again' = [k \in 1..Len(made) |-> Triangle(made[k].points, tuples, flat)]
    /\ pc' = "again"
    /\ UNCHANGED <<shape, tess_style, current_shape, triangles, made, ret, tuples,
                   flat, prim, nevents, combined, fresh, expected, seen, interned,
                   edge>>

-----------------------------------------------------------------------------
(* Claims about the Triangle objects, checked under SpecTriangle *)

\* (P1 - P0) x (P2 - P0) of three indices, from the shape's points
CrossOf(t) == cross(vec(flat[t[1] + 1], flat[t[2] + 1]), vec(flat[t[1] + 1], flat[t[3] + 1]))

Built == pc \in {"returned", "again"}

\* the raw triples whose cross product is not below the threshold, in order
RECURSIVE Kept(_)
Kept(tris) ==
    IF tris = <<>> THEN <<>>
    ELSE (IF abs(CrossOf(Head(tris))) >= Threshold THEN <<Head(tris)>> ELSE <<>>)
             \o Kept(Tail(tris))

\* C1, as stated: every triangle of the list triangulate returns has cross
\* product (P1-P0) x (P2-P0) strictly greater than 1e-4 in its final vertex
\* order, and a raw triple of collinear points yields no output triangle.
C1_CrossAboveThreshold ==
    Built =>
        /\ \A k \in 1..Len(ret) : CrossOf(ret[k].points) > Threshold
        /\ Len(ret) = Len(Kept(triangles))

\* C1, amended: every triangle of the list triangulate returns has cross
\* product (P1-P0) x (P2-P0) of at least 1e-4 in its final vertex order (none
\* is degenerate, none is clockwise), and the list holds one triangle for each
\* raw triple whose cross product has magnitude at least 1e-4: a raw triple of
\* collinear points yields none.
C1_CrossAtLeastThreshold ==
    Built =>
        /\ \A k \in 1..Len(ret) : CrossOf(ret[k].points) >= Threshold
        /\ Len(ret) = Len(Kept(triangles))

\* a clockwise raw triple whose cross product is exactly -1e-4 is returned,
\* turned round, with cross product exactly 1e-4
C1_Witness ==
    /\ pc = "returned"
    /\ Len(ret) = 1
    /\ CrossOf(triangles[1]) = -Threshold
    /\ CrossOf(ret[1].points) = Threshold

\* edge k of a Triangle joins points[k] and points[(k + 1) mod 3]
EdgeEnds(t, k) == <<t.points[k], t.points[(k % 3) + 1]>>

ExactSpan(a, b, bounds) ==
    \E j \in 1..Len(bounds) : bounds[j] = <<min(a, b), max(a, b)>>

InOneSpan(a, b, bounds) ==
    \E j \in 1..Len(bounds) : inside(a, bounds[j]) /\ inside(b, bounds[j])

\* C2, as stated: an edge of a Triangle is flagged boundary if and only if
\* its endpoint indices differ by exactly 1 or are exactly the (low, high) pair
\* of some span.
C2_FlagIffIndexDistanceOrSpanPair ==
    Built =>
        \A n \in 1..Len(made) : \A k \in 1..3 :
            LET e == EdgeEnds(made[n], k)
            IN  made[n].edges[k] <=>
                    (abs(e[1] - e[2]) = 1 \/ ExactSpan(e[1], e[2], tuples))

\* C2, amended: an edge flagged boundary has both endpoints inside one single
\* span, where they differ by exactly 1 or are exactly that span's (low, high)
\* pair; an edge whose endpoints lie in one span and differ by exactly 1 is
\* flagged boundary; an edge whose endpoints lie in no common span is flagged
\* non-boundary.
C2_FlagWithinOneSpan ==
    Built =>
        \A n \in 1..Len(made) : \A k \in 1..3 :
            LET e == EdgeEnds(made[n], k)
                flag == made[n].edges[k]
            IN  /\ flag => SameSpanAdjacent(e[1], e[2], tuples)
                /\ (InOneSpan(e[1], e[2], tuples) /\ abs(e[1] - e[2]) = 1) => flag
                /\ ~InOneSpan(e[1], e[2], tuples) => ~flag

\* a turned-round Triangle with a boundary edge, an inner edge of one path and
\* an edge between the last vertex of one path and the first of the next
C2_Witness ==
    /\ pc = "returned"
    /\ Len(made) = 1
    /\ made[1].points # triangles[1]
    /\ ~made[1].degenerate
    /\ \E k \in 1..3 : made[1].edges[k]
    /\ \E k \in 1..3 :
           LET e == EdgeEnds(made[1], k)
           IN  ~made[1].edges[k] /\ abs(e[1] - e[2]) = 1

\* C8: building a Triangle from the final vertex order of a Triangle (whose
\* cross product is then non-negative), with the same spans and points, gives
\* the same three indices in the same order and the same three edge flags;
\* each stored flag k is is_edge(points[k], points[(k + 1) mod 3]).
C8_NormalisationIdempotent ==
    pc = "again" =>
        \A n \in 1..Len(made) :
            CrossOf(made[n].points) >= 0 =>
                /\ again[n].points = made[n].points
                /\ again[n].edges = made[n].edges
                /\ \A k \in 1..3 :
                       made[n].edges[k] =
                           is_edge(EdgeEnds(made[n], k)[1], EdgeEnds(made[n], k)[2], tuples)

\* every Triangle the constructor leaves has a non-negative cross product
C8_AlwaysCanonical ==
    Built => \A n \in 1..Len(made) : CrossOf(made[n].points) >= 0

\* a Triangle that was turned round, and whose edges 0 and 1 differ, built again
C8_Witness ==
    /\ pc = "again"
    /\ Len(made) = 1
    /\ made[1].points # triangles[1]
    /\ made[1].edges[1] # made[1].edges[2]
    /\ made[1].edges[2] # made[1].edges[3]
    /\ again[1] = made[1]

\* the square of tess_tests.py as the LIST [0,1,2, 0,2,3]: each of the two
\* triangles is counter-clockwise, with two boundary edges and the diagonal
C8_SquareScenario ==
    (Built /\ shape = Square /\ triangles \in {<<<<0, 1, 2>>>>, <<<<0, 2, 3>>>>}) =>
        /\ Len(ret) = 1
        /\ ret[1].points = triangles[1]
        /\ Cardinality({k \in 1..3 : ret[1].edges[k]}) = 2
        /\ Cardinality({k \in 1..3 : ~ret[1].edges[k]
                            /\ {EdgeEnds(ret[1], k)[1], EdgeEnds(ret[1], k)[2]} = {0, 2}}) = 1

NextTriangle == RawTriple \/ Return \/ Renormalise

SpecTriangle == InitTriangle /\ [][NextTriangle]_vars

-----------------------------------------------------------------------------
(* The tessellator specification: calls of triangulate on one ZoteTess.    *)
(* The GLU engine is the environment: inside gluTessEndPolygon it first    *)
(* sweeps the polygon, where it may call cb_combine, and then renders: for *)
(* each primitive cb_begin, cb_vert per vertex and cb_end.  After cb_error *)
(* it calls nothing more.  A vertex payload is the index handed to         *)
(* gluTessVertex, or what cb_combine returned.                             *)

\* the shape triangulate is called with: a right triangle whose cross product
\* is exactly 0.0001
Corner == << << <<0, 0, 0>>, <<1, 0, 0>>, <<0, 1, 0>> >> >>
RunShapes == {Corner}

EngineStyles == {GL_TRIANGLE_FAN, GL_TRIANGLE_STRIP, GL_TRIANGLES, GL_LINE_LOOP}

Self ==
    [tess_style |-> tess_style, current_shape |-> current_shape,
     triangles |-> triangles, raised |-> FALSE]

\* what the claims call a primitive of valid length, a short or ragged one,
\* and one of unknown kind
KindOf(style, n) ==
    IF style \in {GL_TRIANGLE_FAN, GL_TRIANGLE_STRIP}
    THEN (IF n >= 3 THEN "valid" ELSE "short")
    ELSE IF style = GL_TRIANGLES
    THEN (IF n % 3 = 0 THEN "valid" ELSE "short")
    ELSE "unknown"

\* the expansion of one primitive by position, as the specification gives it
Expansion(style, p) ==
    LET n == Len(p)
    IN  IF style = GL_TRIANGLE_FAN /\ n >= 3
        THEN [k \in 1..(n - 2) |-> <<p[1], p[k + 1], p[k + 2]>>]
        ELSE IF style = GL_TRIANGLE_STRIP /\ n >= 3
        THEN [k \in 1..(n - 2) |-> <<p[k], p[k + 1], p[k + 2]>>]
        ELSE IF style = GL_TRIANGLES
        THEN [k \in 1..(n \div 3) |-> <<p[3 * k - 2], p[3 * k - 1], p[3 * k]>>]
        ELSE <<>>

Init ==
    /\ shape = <<>>
    /\ tess_style = InitialStyle /\ current_shape = <<>> /\ triangles = <<>>
    /\ made = <<>> /\ ret = <<>> /\ tuples = <<>> /\ flat = <<>>
    /\ pc = "ready"
    /\ prim = <<>> /\ nevents = 0 /\ combined = FALSE
    /\ fresh = ZoteTess /\ expected = <<>> /\ seen = {}
    /\ interned = FALSE /\ edge = <<>> /\ again = <<>>

\* triangulate(shape) up to gluTessEndPolygon: the local list, the reset of the
\* accumulator, the points fed to the engine with their indices
Triangulate ==
    /\ pc \in {"ready", "returned", "raised"}
    /\ \E s \in RunShapes : shape' = s
    /\ triangles' = <<>>
    /\ current_shape' = new_accumulator(current_shape)
    /\ made' = <<>> /\ ret' = <<>> /\ tuples' = <<>> /\ flat' = <<>>
    /\ pc' = "polygon"
    /\ prim' = <<>> /\ nevents' = 0 /\ combined' = FALSE
    /\ fresh' = [ZoteTess EXCEPT !.current_shape = new_accumulator(@)]
    /\ expected' = <<>>
    /\ seen' = IF current_shape # <<>> \/ tess_style \notin {InitialStyle, NoStyle}
               THEN {"after unfinished run"} ELSE {}
    /\ UNCHANGED <<tess_style, interned, edge, again>>

\* cb_combine(c, v, weight) prints and returns (c[0], c[1], c[2]): the engine
\* now holds a vertex whose payload is that tuple
CbCombine ==
    /\ pc = "polygon"
    /\ ~combined
    /\ nevents = 0
    /\ nevents < MaxEvents
    /\ combined' = TRUE
    /\ nevents' = nevents + 1
    /\ UNCHANGED <<shape, tess_style, current_shape, triangles, made, ret, tuples,
                   flat, pc, prim, fresh, expected, seen, interned, edge, again>>

\* cb_error(what) prints; the engine gives up the polygon
CbError ==
    /\ pc \in {"polygon", "primitive"}
    /\ nevents < MaxEvents
    /\ pc' = "stopped"
    /\ nevents' = nevents + 1
    /\ UNCHANGED <<shape, tess_style, current_shape, triangles, made, ret, tuples,
                   flat, prim, combined, fresh, expected, seen, interned, edge,
                   again>>

CbBegin ==
    /\ pc = "polygon"
    /\ nevents < MaxEvents
    /\ \E style \in EngineStyles :
           /\ tess_style' = cb_begin(Self, style).tess_style
           /\ fresh' = cb_begin(fresh, style)
    /\ pc' = "primitive"
    /\ prim' = <<>>
    /\ nevents' = nevents + 1
    /\ UNCHANGED <<shape, current_shape, triangles, made, ret, tuples, flat,
                   combined, expected, seen, interned, edge, again>>

CbVert ==
    /\ pc = "primitive"
    /\ nevents < MaxEvents
    /\ \E v \in (0..(NumPoints(shape) - 1)) \cup (IF combined THEN {CombinedVertex} ELSE {}) :
           /\ current_shape' = cb_vert(Self, v).current_shape
           /\ fresh' = cb_vert(fresh, v)
           /\ prim' = Append(prim, v)
    /\ nevents' = nevents + 1
    /\ UNCHANGED <<shape, tess_style, triangles, made, ret, tuples, flat, pc,
                   combined, expected, seen, interned, edge, again>>

\* cb_end.  What becomes of an exception raised in a callback is the binding's
\* affair: it leaves gluTessEndPolygon and triangulate, or the callback wrapper
\* reports it and the engine goes on.
CbEnd ==
    /\ pc = "primitive"
    /\ nevents < MaxEvents
    /\ LET z == cb_end(Self)
           f == cb_end(fresh)
           kind == KindOf(tess_style, Len(prim))
       IN  /\ tess_style' = z.tess_style
           /\ current_shape' = z.current_shape
           /\ triangles' = z.triangles
           /\ fresh' = f
           /\ expected' = expected \o Expansion(tess_style, prim)
           /\ seen' = seen \cup {kind}
                  \cup (IF z.raised THEN {"raised"} ELSE {})
                  \cup (IF f.raised # z.raised THEN {"diverged"} ELSE {})
                  \cup (IF kind = "unknown" /\ prim # <<>> THEN {"unknown vertices"} ELSE {})
                  \cup (IF kind = "valid" /\ prim # <<>> /\ "unknown vertices" \in seen
                        THEN {"valid after unknown"} ELSE {})
                  \cup (IF kind = "valid" /\ prim # <<>> /\ expected # <<>>
                        THEN {"valid after valid"} ELSE {})
           /\ IF z.raised
              THEN pc' \in {"raised", "polygon"}
              ELSE pc' = "polygon"
    /\ prim' = <<>>
    /\ nevents' = nevents + 1
    /\ UNCHANGED <<shape, made, ret, tuples, flat, combined, interned, edge, again>>

-----------------------------------------------------------------------------
(* Claims about the callbacks and the runs of triangulate *)

InRun == pc # "ready"

\* C4: for primitives of valid length (FAN or STRIP with n >= 3 indices, LIST
\* with n a multiple of 3) the raw triangle list is the concatenation, in
\* emission order, of each primitive's expansion: FAN [c,p1..pn] gives
\* (c,p1,p2),(c,p2,p3),..., STRIP [p1..pn] gives (p1,p2,p3),(p2,p3,p4),...,
\* LIST gives consecutive groups of 3; a FAN or STRIP of length n contributes
\* n - 2 triples and a LIST n / 3.
C4_ValidPrimitivesExpandInOrder ==
    (InRun /\ "short" \notin seen /\ "unknown" \notin seen) => triangles = expected

\* two primitives of valid length have each contributed triples
C4_Witness ==
    /\ pc = "polygon"
    /\ "valid after valid" \in seen
    /\ "short" \notin seen /\ "unknown" \notin seen
    /\ Len(triangles) = 2
    /\ triangles = expected

\* C5: a FAN or STRIP ended with fewer than 3 indices contributes zero
\* triangles, a LIST whose length is not a multiple of 3 contributes its
\* floor(n/3) complete triples, and in every such case the end event completes
\* normally, without aborting the run.
C5_ShortPrimitivesEndNormally ==
    (InRun /\ "short" \in seen) =>
        /\ "raised" \notin seen
        /\ triangles = expected

\* C6: a primitive of a kind outside {FAN, STRIP, LIST} contributes zero
\* triangles, its accumulated vertices are discarded, and every later
\* primitive expands as if it had never been emitted.
C6_UnknownKindDiscarded ==
    (InRun /\ "unknown" \in seen) =>
        /\ triangles = expected
        /\ (pc = "polygon" => current_shape = <<>>)

\* a primitive of unknown kind with vertices, then one of valid length
C6_Witness ==
    /\ pc = "polygon"
    /\ "valid after unknown" \in seen
    /\ triangles # <<>>
    /\ triangles = expected

Held ==
    {current_shape[k] : k \in 1..Len(current_shape)}
        \cup UNION {{triangles[k][1], triangles[k][2], triangles[k][3]} : k \in 1..Len(triangles)}
        \cup UNION {{ret[k].points[1], ret[k].points[2], ret[k].points[3]} : k \in 1..Len(ret)}

\* C7: no synthesized vertex is admitted: after any sequence of engine events
\* every value held in the accumulator or in a raw or output triangle is an
\* original index in 0..N-1.
C7_OnlyOriginalIndicesHeld ==
    InRun => Held \subseteq 0..(NumPoints(shape) - 1)

\* the list the loop at the end of triangulate makes of raw triples
ListOf(tris) ==
    SelectSeq([k \in 1..Len(tris) |->
                  Triangle(tris[k], make_bound_tuples(shape), flattened_points(shape))],
              NotDegenerate)

\* C10: the list triangulate returns for a shape and a sequence of engine
\* events is the one a newly constructed ZoteTess returns for them, whatever
\* calls came before, also one that stopped with vertices in the accumulator
\* or a primitive kind set; and the call raises only where that one raises.
C10_RunsAreIsolated ==
    /\ InRun => "diverged" \notin seen
    /\ pc = "returned" =>
           /\ Reached(fresh.triangles) = fresh.triangles
           /\ ret = ListOf(fresh.triangles)
    /\ pc = "raised" =>
           (fresh.raised \/ Reached(fresh.triangles) # fresh.triangles)

\* a call that followed an unfinished one has returned a triangle
C10_Witness ==
    /\ pc = "returned"
    /\ "after unfinished run" \in seen
    /\ ret # <<>>

\* a newly constructed ZoteTess keeps step with the one in use
FreshKeepsStep ==
    InRun =>
        /\ fresh.triangles = triangles
        /\ fresh.current_shape = current_shape
        /\ (pc = "primitive" => fresh.tess_style = tess_style)

\* a polygon the engine needs no new vertex for
NextPlain == Triangulate \/ CbError \/ CbBegin \/ CbVert \/ CbEnd \/ Return

SpecPlain == Init /\ [][NextPlain]_vars

\* any polygon
Next == NextPlain \/ CbCombine

Spec == Init /\ [][Next]_vars

====
